---- MODULE Spec2Model ----
(***************************************************************************)
(* Load-cell acquisition sketches.                                         *)
(*                                                                         *)
(*   "single"  src/sketch_aug15a/sketch_aug15a.ino  one HX711, grams       *)
(*   "multi"   src/unnamed/part_000                 four HX711, raw counts *)
(*                                                                         *)
(* Both are Arduino sketches: the runtime calls setup() once after reset   *)
(* and then loop() again and again on a single thread.  The model follows  *)
(* the program counter of that thread through both functions.  The HX711   *)
(* chips, the millisecond clock and the reset line are the environment.    *)
(*                                                                         *)
(* The serial sink is the sequence of tokens written so far: a number      *)
(* token for every integer the Print class writes, a symbol token for a    *)
(* comma, a minus sign, a decimal point and a line break, and one text     *)
(* token for a string literal.  Lines and fields are recovered from the    *)
(* token stream by splitting it, as a consumer of the stream would.        *)
(*                                                                         *)
(* Abstractions.  millis() is an unbounded integer (the 32-bit wrap after  *)
(* 49.7 days is outside the bounds explored).  The float quotient          *)
(* raw / calibration_factor is kept as an exact fraction; for the raw      *)
(* values explored (|raw| < 2048000) single-precision rounding cannot      *)
(* change any of the three printed decimals.                               *)
(***************************************************************************)
EXTENDS Integers, Sequences, FiniteSets, TLC

VARIABLES
    mode,                \* which sketch is flashed
    profile,             \* which signal the load cells deliver (fixed input)
    dead,                \* channels whose HX711 never delivers (fixed input)
    pc,                  \* position of the single thread
    i,                   \* loop index `i` of the for loops
    k,                   \* conversions drained so far inside read_average
    sum,                 \* accumulator inside read_average
    raw,                 \* `long raw`
    grams,               \* `double grams`, an exact fraction [num, den]
    all_ready,           \* `bool all_ready`
    calibration_factor,  \* `float calibration_factor`
    ready,               \* per channel: DOUT low, a conversion is pending
    conv,                \* per channel: conversions shifted out since reset
    now,                 \* the millisecond clock behind millis()
    sink,                \* tokens written to Serial since reset
    tares,               \* per channel: number of tare() calls since reset
    begun,               \* per channel: begin() was called
    calls,               \* begin/delay/tare/header calls since reset, in order
    prevCalls,           \* `calls` of the previous run, if it finished setup()
    polled,              \* this iteration: what is_ready() returned
    written,             \* this iteration: tokens written to Serial
    trace,               \* this iteration: read_average calls and returns
    sampledAt,           \* this iteration: the clock at each entry of trace
    paced,               \* this iteration: delay() calls
    batch,               \* the raw conversions of the current read_average
    stamp                \* this iteration: value millis() returned, or -1

vars == <<mode, profile, dead, pc, i, k, sum, raw, grams, all_ready,
          calibration_factor, ready, conv, now, sink, tares, begun, calls,
          prevCalls, polled, written, trace, sampledAt, paced, batch, stamp>>

-----------------------------------------------------------------------------
(* Bounds of the exploration.                                              *)

MaxFrames == 2
MaxLate == 1

-----------------------------------------------------------------------------
(* Build-time constants of the two sketches.                               *)

SingleChannels == 1
MultiChannels == 4
CalibrationInit == 1000
SingleSettleMs == 1000
MultiSettleMs == 2000
SingleBatch == 10
MultiBatch == 5
PaceDelayMs == 50
GramDigits == 3

Modes == {"single", "multi"}

N(m) == IF m = "single" THEN SingleChannels ELSE MultiChannels

Chan(m) == 0 .. (N(m) - 1)

\* the two stabilization delays exchanged
SettleMsSwapped(m) == IF m = "single" THEN MultiSettleMs ELSE SingleSettleMs

SettleMs(m) == IF m = "single" THEN SingleSettleMs ELSE MultiSettleMs

\* the two batch sizes exchanged
BatchSizeSwapped(m) == IF m = "single" THEN MultiBatch ELSE SingleBatch

BatchSize(m) == IF m = "single" THEN SingleBatch ELSE MultiBatch

\* the two header rows exchanged
HeaderTextSwapped(m) ==
    IF m = "single" THEN "millis,raw_ch1,raw_ch2,raw_ch3,raw_ch4"
    ELSE "millis,grams"

HeaderText(m) ==
    IF m = "single" THEN "millis,grams"
    ELSE "millis,raw_ch1,raw_ch2,raw_ch3,raw_ch4"

\* the for loops leaving one iteration early
LoopDoneEarly(m, j) == j >= N(m) - 1

\* `i < 4` of the for loops, negated: the loop is left
LoopDone(m, j) == j >= N(m)

-----------------------------------------------------------------------------
(* Tokens of the serial stream.                                            *)

Num(n) == [k |-> "num", v |-> n]

Sym(s) == [k |-> s, v |-> 0]

Comma == Sym(",")

NL == Sym("nl")

\* Print::print(long): a minus sign for a negative value, then the digits
PrintLong(n) == IF n < 0 THEN <<Sym("-"), Num(-n)>> ELSE <<Num(n)>>

Abs(n) == IF n < 0 THEN -n ELSE n

RECURSIVE Pow10(_)
Pow10(d) == IF d = 0 THEN 1 ELSE 10 * Pow10(d - 1)

\* the digit loop of Print::printFloat: remainder r over denominator D
RECURSIVE FloatDigits(_, _, _)
FloatDigits(r, D, d) ==
    IF d = 0 THEN <<>>
    ELSE <<Num((r * 10) \div D)>> \o FloatDigits((r * 10) % D, D, d - 1)

\* Print::printFloat(number, digits) on the fraction q.num / q.den:
\* sign, number += 0.5 / 10^digits, integer part, '.', then the digits
PrintFloat(q, d) ==
    IF q.den = 0
    THEN <<Sym(IF q.num = 0 THEN "nan" ELSE "inf")>>
    ELSE LET neg == (q.num < 0) # (q.den < 0) /\ q.num # 0
             scale == 2 * Pow10(d)
             D == Abs(q.den) * scale
             n2 == Abs(q.num) * scale + Abs(q.den)
         IN (IF neg THEN <<Sym("-")>> ELSE <<>>)
            \o <<Num(n2 \div D)>>
            \o (IF d > 0 THEN <<Sym(".")>> ELSE <<>>)
            \o FloatDigits(n2 % D, D, d)

\* the quotient upside down
QuotientFlipped(r, f) == [num |-> f, den |-> r]

\* `raw / calibration_factor`
Quotient(r, f) == [num |-> r, den |-> f]

\* C integer division `sum / times`, times > 0: truncation toward zero
TruncDiv(a, b) == IF a >= 0 THEN a \div b ELSE -((-a) \div b)

-----------------------------------------------------------------------------
(* The signal: conversion number n of channel c under each profile.       *)

Profiles == {"steady", "kilo", "noisy"}

\* steady: a constant load per channel; kilo: 4000 counts on every channel;
\* noisy: negative counts that change with every conversion
Scenarios ==
    {<<"single", "kilo">>, <<"single", "noisy">>,
     <<"multi", "steady">>, <<"multi", "noisy">>}

Signal(p, c, n) ==
    CASE p = "steady" -> 100 * (c + 1)
      [] p = "kilo"   -> 4000
      [] p = "noisy"  -> 11 * ((n * n + c) % 7) - 40 * (c + 1) - 2 * n

\* by how much a delay() may overrun
Lateness == 0 .. MaxLate

\* how long a read_average call may take.  In the multi-channel sketch the
\* next millis() is read only after the delay that follows the samples, so
\* the variation of the sampling time is folded into that delay's overrun
\* and every call is taken to last MaxLate ms.
SampleLate(m) == IF m = "single" THEN Lateness ELSE {MaxLate}

-----------------------------------------------------------------------------
(* Reading the serial stream back.                                         *)

RECURSIVE CountNL(_)
CountNL(s) ==
    IF s = <<>> THEN 0
    ELSE (IF Head(s) = NL THEN 1 ELSE 0) + CountNL(Tail(s))

\* the pieces of s between separators; the last piece is what follows the
\* last separator (empty when s ends with one)
RECURSIVE SplitOn(_, _, _)
SplitOn(s, sep, acc) ==
    IF s = <<>> THEN <<acc>>
    ELSE IF Head(s) = sep THEN <<acc>> \o SplitOn(Tail(s), sep, <<>>)
    ELSE SplitOn(Tail(s), sep, Append(acc, Head(s)))

Pieces(s) == SplitOn(s, NL, <<>>)

\* the lines terminated by a line break, and the unterminated rest
Lines(s) == LET p == Pieces(s) IN SubSeq(p, 1, Len(p) - 1)

Partial(s) == LET p == Pieces(s) IN p[Len(p)]

Fields(line) == SplitOn(line, Comma, <<>>)

DataLines(s) == LET l == Lines(s) IN IF Len(l) = 0 THEN <<>> ELSE Tail(l)

-----------------------------------------------------------------------------
(* Initial state: power-on.                                                *)

Unpolled(m) == [c \in Chan(m) |-> "unpolled"]

Zeroes(m) == [c \in Chan(m) |-> 0]

Call(op, arg) == [op |-> op, arg |-> arg]

Init ==
    /\ mode \in Modes
    /\ profile \in Profiles
    /\ <<mode, profile>> \in Scenarios
    /\ dead \in {{}} \cup {{c} : c \in Chan(mode)}
    /\ pc = "begin"
    /\ i = 0
    /\ k = 0
    /\ sum = 0
    /\ raw = 0
    /\ grams = Quotient(0, 1)
    /\ all_ready = TRUE
    /\ calibration_factor = CalibrationInit
    /\ ready = [c \in Chan(mode) |-> FALSE]
    /\ conv = Zeroes(mode)
    /\ now = 0
    /\ sink = <<>>
    /\ tares = Zeroes(mode)
    /\ begun = [c \in Chan(mode) |-> FALSE]
    /\ calls = <<>>
    /\ prevCalls = <<>>
    /\ polled = Unpolled(mode)
    /\ written = 0
    /\ trace = <<>>
    /\ sampledAt = <<>>
    /\ paced = 0
    /\ batch = <<>>
    /\ stamp = -1

-----------------------------------------------------------------------------
(* setup()                                                                 *)

InSetup == pc \in {"begin", "stabilize", "tare", "header"}

InLoop == ~InSetup

iterVars == <<polled, written, trace, sampledAt, paced, stamp>>

samplerVars == <<k, sum, raw, batch, conv>>

fixedVars == <<mode, profile, dead, calibration_factor, prevCalls>>

\* scales[i].begin(DOUT_PINS[i], SCK_PINS[i]) / scale.begin(...)
BeginChannel ==
    /\ pc = "begin"
    /\ begun' = [begun EXCEPT ![i] = TRUE]
    /\ calls' = Append(calls, Call("begin", i))
    /\ IF LoopDone(mode, i + 1)
       THEN pc' = "stabilize" /\ i' = 0
       ELSE pc' = "begin" /\ i' = i + 1
    /\ UNCHANGED <<fixedVars, samplerVars, iterVars, grams, all_ready, ready,
                   now, sink, tares>>

\* delay(1000) / delay(2000): returns no earlier than that many ms later
Stabilize ==
    /\ pc = "stabilize"
    /\ \E e \in Lateness : now' = now + SettleMs(mode) + e
    /\ calls' = Append(calls, Call("delay", SettleMs(mode)))
    /\ pc' = "tare"
    /\ UNCHANGED <<fixedVars, samplerVars, iterVars, i, grams, all_ready,
                   ready, sink, tares, begun>>

\* every iteration taring the first HX711
TareTargetFirst(j) == 0

\* which HX711 the tare loop zeroes: `scales[i]` / `scale`
TareTarget(j) == j

\* scales[i].tare() / scale.tare()
TareChannel ==
    /\ pc = "tare"
    /\ tares' = [tares EXCEPT ![TareTarget(i)] = @ + 1]
    /\ calls' = Append(calls, Call("tare", TareTarget(i)))
    /\ IF LoopDone(mode, i + 1)
       THEN pc' = "header" /\ i' = 0
       ELSE pc' = "tare" /\ i' = i + 1
    /\ UNCHANGED <<fixedVars, samplerVars, iterVars, grams, all_ready, ready,
                   now, sink, begun>>

\* Serial.println("millis,..."); setup() returns and loop() is entered
Header ==
    /\ pc = "header"
    /\ sink' = sink \o <<Sym(HeaderText(mode)), NL>>
    /\ calls' = Append(calls, Call(HeaderText(mode), 0))
    /\ pc' = "loop"
    /\ UNCHANGED <<fixedVars, samplerVars, iterVars, i, grams, all_ready,
                   ready, now, tares, begun>>

-----------------------------------------------------------------------------
(* loop()                                                                  *)

\* the runtime calls loop(); `bool all_ready = true; for (int i = 0; ...`
LoopStart ==
    /\ pc = "loop"
    /\ CountNL(sink) < 1 + MaxFrames
    /\ pc' = "gate"
    /\ i' = 0
    /\ all_ready' = TRUE
    /\ polled' = Unpolled(mode)
    /\ written' = 0
    /\ trace' = <<>>
    /\ sampledAt' = <<>>
    /\ paced' = 0
    /\ stamp' = -1
    /\ UNCHANGED <<fixedVars, samplerVars, grams, ready, now, sink, tares,
                   begun, calls>>

\* the single-channel gate without its early return
AfterPollNoReturn(m, j, r) ==
    IF m = "single" THEN "sample"
    ELSE (IF r /\ ~LoopDone(m, j + 1) THEN "gate" ELSE "check")

\* the gate giving up on a channel that is not ready
AfterPollHalt(m, j, r) ==
    IF ~r THEN "halt"
    ELSE IF m = "single" THEN "sample"
    ELSE IF ~LoopDone(m, j + 1) THEN "gate" ELSE "check"

\* the multi-channel gate without its break
AfterPollNoBreak(m, j, r) ==
    IF m = "single"
    THEN (IF r THEN "sample" ELSE "return")
    ELSE (IF ~LoopDone(m, j + 1) THEN "gate" ELSE "check")

\* where control goes when is_ready() of channel j returned r
AfterPoll(m, j, r) ==
    IF m = "single"
    THEN (IF r THEN "sample" ELSE "return")
    ELSE (IF r /\ ~LoopDone(m, j + 1) THEN "gate" ELSE "check")

\* `if (!scale.is_ready()) return;` / `if (!scales[i].is_ready()) {...break;}`
Poll ==
    /\ pc = "gate"
    /\ polled' = [polled EXCEPT ![i] = IF ready[i] THEN "ready" ELSE "busy"]
    /\ all_ready' = (all_ready /\ ready[i])
    /\ pc' = AfterPoll(mode, i, ready[i])
    /\ i' = IF pc' = "gate" THEN i + 1 ELSE IF pc' = "check" THEN i ELSE 0
    /\ UNCHANGED <<fixedVars, samplerVars, grams, ready, now, sink, tares,
                   begun, calls, written, trace, sampledAt, paced, stamp>>

\* the multi-channel gate without its early return
AfterCheckNoReturn(ok) == "stamp"

\* the multi-channel loop sampling before it prints millis()
AfterCheckSampleFirst(ok) == IF ok THEN "sample" ELSE "return"

\* the multi-channel loop returning whatever the gate found
AfterCheckGiveUp(ok) == "return"

\* `if (!all_ready) return;`
AfterCheck(ok) == IF ok THEN "stamp" ELSE "return"

Check ==
    /\ pc = "check"
    /\ pc' = AfterCheck(all_ready)
    /\ i' = 0
    /\ UNCHANGED <<fixedVars, samplerVars, iterVars, grams, all_ready, ready,
                   now, sink, tares, begun, calls>>

\* Serial.print(millis());
Stamp ==
    /\ pc = "stamp"
    /\ stamp' = now
    /\ sink' = Append(sink, Num(now))
    /\ written' = written + 1
    /\ pc' = IF mode = "single" THEN "comma" ELSE "sample"
    /\ UNCHANGED <<fixedVars, samplerVars, i, grams, all_ready, ready, now,
                   tares, begun, calls, polled, trace, sampledAt, paced>>

\* every iteration sampling the first HX711
SampleChannelFirst(j) == 0

\* which HX711 the loop body samples: `scales[i]` / `scale`
SampleChannel(j) == j

Event(ev, ch, val) == [ev |-> ev, ch |-> ch, val |-> val]

\* read_average(times) is entered on scales[i]
SampleCall ==
    /\ pc = "sample"
    /\ trace' = Append(trace, Event("call", SampleChannel(i), 0))
    /\ sampledAt' = Append(sampledAt, now)
    /\ k' = 0
    /\ sum' = 0
    /\ batch' = <<>>
    /\ pc' = "read"
    /\ UNCHANGED <<fixedVars, raw, conv, i, grams, all_ready, ready, now,
                   sink, tares, begun, calls, polled, written, paced, stamp>>

\* inside read_average: read() waits for the conversion and shifts it out
ReadOne ==
    /\ pc = "read"
    /\ k < BatchSize(mode)
    /\ LET c == SampleChannel(i)
       IN /\ ready[c]
          /\ sum' = sum + Signal(profile, c, conv[c])
          /\ batch' = Append(batch, Signal(profile, c, conv[c]))
          /\ conv' = [conv EXCEPT ![c] = @ + 1]
          /\ ready' = [ready EXCEPT ![c] = FALSE]
    /\ k' = k + 1
    /\ UNCHANGED <<fixedVars, iterVars, pc, i, raw, grams, all_ready, now,
                   sink, tares, begun, calls>>

\* read_average returns sum / times; the call took some ms
ReadDone ==
    /\ pc = "read"
    /\ k = BatchSize(mode)
    /\ raw' = TruncDiv(sum, BatchSize(mode))
    /\ trace' = Append(trace, Event("ret", SampleChannel(i), raw'))
    /\ \E e \in SampleLate(mode) : now' = now + e
    /\ sampledAt' = Append(sampledAt, now')
    /\ pc' = IF mode = "single" THEN "convert" ELSE "emit"
    /\ UNCHANGED <<fixedVars, k, sum, batch, conv, i, grams, all_ready,
                   ready, sink, tares, begun, calls, polled, written, paced,
                   stamp>>

\* Serial.print(","); Serial.print(raw); and the loop's i++
Emit ==
    /\ pc = "emit"
    /\ sink' = sink \o <<Comma>> \o PrintLong(raw)
    /\ written' = written + 1 + Len(PrintLong(raw))
    /\ IF LoopDone(mode, i + 1)
       THEN pc' = "println" /\ i' = 0
       ELSE pc' = "sample" /\ i' = i + 1
    /\ UNCHANGED <<fixedVars, samplerVars, grams, all_ready, ready, now,
                   tares, begun, calls, polled, trace, sampledAt, paced, stamp>>

\* the loop returning right after the line break
AfterPrintlnNoPace == "return"

\* what follows Serial.println() in the multi-channel loop: delay(50)
AfterPrintln == "pace"

\* Serial.println();
Println ==
    /\ pc = "println"
    /\ sink' = Append(sink, NL)
    /\ written' = written + 1
    /\ pc' = AfterPrintln
    /\ UNCHANGED <<fixedVars, samplerVars, i, grams, all_ready, ready, now,
                   tares, begun, calls, polled, trace, sampledAt, paced, stamp>>

\* delay(50);
Pace ==
    /\ pc = "pace"
    /\ \E e \in Lateness : now' = now + PaceDelayMs + e
    /\ paced' = paced + 1
    /\ pc' = "return"
    /\ UNCHANGED <<fixedVars, samplerVars, i, grams, all_ready, ready, sink,
                   tares, begun, calls, polled, written, trace, sampledAt, stamp>>

\* double grams = raw / calibration_factor;
Convert ==
    /\ pc = "convert"
    /\ grams' = Quotient(raw, calibration_factor)
    /\ pc' = "stamp"
    /\ UNCHANGED <<fixedVars, samplerVars, iterVars, i, all_ready, ready,
                   now, sink, tares, begun, calls>>

\* Serial.print(",");
PrintComma ==
    /\ pc = "comma"
    /\ sink' = Append(sink, Comma)
    /\ written' = written + 1
    /\ pc' = "value"
    /\ UNCHANGED <<fixedVars, samplerVars, i, grams, all_ready, ready, now,
                   tares, begun, calls, polled, trace, sampledAt, paced, stamp>>

\* Serial.println(grams, 3);
PrintGrams ==
    /\ pc = "value"
    /\ sink' = sink \o PrintFloat(grams, GramDigits) \o <<NL>>
    /\ written' = written + Len(PrintFloat(grams, GramDigits)) + 1
    /\ pc' = "return"
    /\ UNCHANGED <<fixedVars, samplerVars, i, grams, all_ready, ready, now,
                   tares, begun, calls, polled, trace, sampledAt, paced, stamp>>

\* loop() returns to the runtime, which calls it again
Return ==
    /\ pc = "return"
    /\ pc' = "loop"
    /\ UNCHANGED <<fixedVars, samplerVars, iterVars, i, grams, all_ready,
                   ready, now, sink, tares, begun, calls>>

-----------------------------------------------------------------------------
(* The environment.                                                        *)

progVars == <<pc, i, grams, all_ready, now, sink, tares, begun, calls>>

\* the HX711 of channel c finishes a conversion: DOUT goes low
ConversionReadyOn(c) ==
    /\ c \in Chan(mode)
    /\ c \notin dead
    /\ ~ready[c]
    /\ ready' = [ready EXCEPT ![c] = TRUE]
    /\ UNCHANGED <<fixedVars, samplerVars, iterVars, progVars>>

ConversionReady == \E c \in Chan(mode) : ConversionReadyOn(c)

\* an unread conversion is being replaced: DOUT goes high for a moment
ConversionRefresh ==
    \E c \in Chan(mode) :
        /\ ready[c]
        /\ ready' = [ready EXCEPT ![c] = FALSE]
        /\ UNCHANGED <<fixedVars, samplerVars, iterVars, progVars>>

\* reset or power cycle: globals are re-initialised and setup() runs again
Restart ==
    /\ prevCalls' = IF InLoop THEN calls ELSE prevCalls
    /\ pc' = "begin"
    /\ i' = 0
    /\ k' = 0
    /\ sum' = 0
    /\ raw' = 0
    /\ grams' = Quotient(0, 1)
    /\ all_ready' = TRUE
    /\ calibration_factor' = CalibrationInit
    /\ conv' = Zeroes(mode)
    /\ now' = 0
    /\ sink' = <<>>
    /\ tares' = Zeroes(mode)
    /\ begun' = [c \in Chan(mode) |-> FALSE]
    /\ calls' = <<>>
    /\ polled' = Unpolled(mode)
    /\ written' = 0
    /\ trace' = <<>>
    /\ sampledAt' = <<>>
    /\ paced' = 0
    /\ batch' = <<>>
    /\ stamp' = -1
    /\ UNCHANGED <<mode, profile, dead, ready>>

Next ==
    \/ BeginChannel
    \/ Stabilize
    \/ TareChannel
    \/ Header
    \/ LoopStart
    \/ Poll
    \/ Check
    \/ Stamp
    \/ SampleCall
    \/ ReadOne
    \/ ReadDone
    \/ Emit
    \/ Println
    \/ Pace
    \/ Convert
    \/ PrintComma
    \/ PrintGrams
    \/ Return
    \/ ConversionReady
    \/ ConversionRefresh
    \/ Restart

Spec == Init /\ [][Next]_vars

\* the steps of the one thread: setup(), then loop() again and again
Thread ==
    \/ BeginChannel
    \/ Stabilize
    \/ TareChannel
    \/ Header
    \/ LoopStart
    \/ Poll
    \/ Check
    \/ Stamp
    \/ SampleCall
    \/ ReadOne
    \/ ReadDone
    \/ Emit
    \/ Println
    \/ Pace
    \/ Convert
    \/ PrintComma
    \/ PrintGrams
    \/ Return

\* one run without reset: the thread never stops by itself, the chips are
\* free to deliver or withhold conversions
NextRun == Thread \/ ConversionReady \/ ConversionRefresh

SpecRun == Init /\ [][NextRun]_vars /\ WF_vars(Thread)

\* the chips as the steady case has them: a conversion that is ready stays
\* ready until it is read, and every channel delivers again after a read
NextSteady == Thread \/ ConversionReady

SpecLive ==
    /\ Init
    /\ [][NextSteady]_vars
    /\ WF_vars(Thread)
    /\ \A c \in 0 .. 3 : WF_vars(ConversionReadyOn(c))

-----------------------------------------------------------------------------
(* Properties.                                                             *)

Last(s) == s[Len(s)]

Range(s) == {s[p] : p \in 1 .. Len(s)}

AllPolledReady == \A c \in Chan(mode) : polled[c] = "ready"

GateFailed == \E c \in Chan(mode) : polled[c] = "busy"

\* what this iteration has written to the sink so far
IterTokens == SubSeq(sink, Len(sink) - written + 1, Len(sink))

\* this iteration has written one whole line of 1 + n fields and no more
FrameWritten(n) ==
    /\ written > 0
    /\ Last(IterTokens) = NL
    /\ CountNL(IterTokens) = 1
    /\ Len(Fields(SubSeq(IterTokens, 1, written - 1))) = 1 + n

ChannelsOf == IF mode = "single" THEN 1 ELSE 4

\* C1: an iteration of loop() writes a Frame if and only if is_ready()
\* returned true for every channel at its gate check (1 channel in the
\* single-channel sketch, 4 in the multi-channel one): nothing is written
\* in an iteration before every channel was polled ready, an iteration that
\* ends has written either nothing or exactly one whole line, and every
\* line-terminated data line carries a timestamp and N channel values.
C1_FrameIffAllReady ==
    /\ InLoop /\ written > 0 => AllPolledReady
    /\ pc = "return" =>
          /\ AllPolledReady <=> FrameWritten(ChannelsOf)
          /\ ~AllPolledReady <=> written = 0
    /\ LET data == DataLines(sink)
       IN \A j \in 1 .. Len(data) : Len(Fields(data[j])) = 1 + ChannelsOf

\* a failed iteration that follows an emitted Frame, four channels
C1_Witness ==
    /\ mode = "multi"
    /\ pc = "return"
    /\ GateFailed
    /\ Len(DataLines(sink)) = 1

\* a passing iteration of the single-channel sketch at its end
C1_WitnessSingle ==
    /\ mode = "single"
    /\ pc = "return"
    /\ AllPolledReady
    /\ FrameWritten(1)

\* C2: when some channel is not ready at the gate check, the iteration
\* produces nothing: from the failing is_ready() on, until loop() is entered
\* again, control is at the all_ready test, the return or the re-entry, no
\* token was written, read_average was called on no channel, no delay was
\* taken and millis() was not read; the steps of that iteration leave the
\* sink, the clock and the conversions of every channel untouched, and the
\* thread goes from the return to the entry of loop() and from there to the
\* gate check of channel 0.
C2_GateFailState ==
    GateFailed =>
        /\ pc \in {"check", "return", "loop"}
        /\ written = 0
        /\ trace = <<>>
        /\ paced = 0
        /\ stamp = -1

C2_GateFailStep ==
    (GateFailed /\ pc' # "begin") =>
        /\ sink' = sink
        /\ now' = now
        /\ conv' = conv
        /\ pc = "check" => pc' \in {"check", "return"}
        /\ pc = "return" => pc' \in {"return", "loop"}
        /\ pc = "loop" => pc' = "loop" \/ (pc' = "gate" /\ i' = 0)

C2_NothingOnGateFail == [](C2_GateFailState) /\ [][C2_GateFailStep]_vars

\* readiness [true, false, true, true]: the gate stopped at channel 1
C2_Witness ==
    /\ mode = "multi"
    /\ pc = "return"
    /\ ready = (0 :> TRUE @@ 1 :> FALSE @@ 2 :> TRUE @@ 3 :> TRUE)
    /\ polled = (0 :> "ready" @@ 1 :> "busy" @@ 2 :> "unpolled"
                 @@ 3 :> "unpolled")
    /\ Len(DataLines(sink)) = 1

\* the calls of the Startup Sequencer, in order
RECURSIVE CallsOn(_, _, _)
CallsOn(op, from, n) ==
    IF from >= n THEN <<>>
    ELSE <<Call(op, from)>> \o CallsOn(op, from + 1, n)

ExpectedStartup ==
    CallsOn("begin", 0, ChannelsOf)
    \o <<Call("delay", IF mode = "single" THEN 1000 ELSE 2000)>>
    \o CallsOn("tare", 0, ChannelsOf)
    \o <<Call(IF mode = "single" THEN "millis,grams"
              ELSE "millis,raw_ch1,raw_ch2,raw_ch3,raw_ch4", 0)>>

IsPrefix(s, t) == Len(s) <= Len(t) /\ s = SubSeq(t, 1, Len(s))

\* C3: the Startup Sequencer runs exactly once and completes before the
\* first gate check: while setup() runs, its calls are a proper prefix of
\* begin() on every channel, the stabilization delay (1000 ms single,
\* 2000 ms multi), tare() on every channel, the header row; nothing was
\* written, no is_ready() and no read_average() was called; tare() is
\* reached only after the delay has elapsed; and in loop() the calls are
\* exactly that sequence, once, with the header as the first line.
C3_StartupOnceBeforeLoop ==
    /\ IsPrefix(calls, ExpectedStartup)
    /\ InSetup =>
          /\ Len(calls) < Len(ExpectedStartup)
          /\ sink = <<>>
          /\ polled = Unpolled(mode)
          /\ trace = <<>>
          /\ \A c \in Chan(mode) : conv[c] = 0
    /\ pc \in {"tare", "header"} =>
          now >= (IF mode = "single" THEN 1000 ELSE 2000)
    /\ InLoop =>
          /\ calls = ExpectedStartup
          /\ Len(sink) >= 2
          /\ SubSeq(sink, 1, 2) = <<Sym(HeaderText(mode)), NL>>
          /\ now >= (IF mode = "single" THEN 1000 ELSE 2000)

\* the first gate check of the multi-channel sketch
C3_Witness ==
    /\ mode = "multi"
    /\ pc = "gate"
    /\ i = 0
    /\ calls = ExpectedStartup
    /\ Len(DataLines(sink)) = 0

RECURSIVE SumSeq(_)
SumSeq(b) == IF b = <<>> THEN 0 ELSE Head(b) + SumSeq(Tail(b))

\* r is the mean of the values of b, rounded toward zero
IsTruncMean(r, b) ==
    LET S == SumSeq(b)
        B == Len(b)
    IN /\ Abs(r) * B <= Abs(S)
       /\ Abs(S) < (Abs(r) + 1) * B
       /\ S >= 0 => r >= 0
       /\ S <= 0 => r <= 0

BatchOf == IF mode = "single" THEN 10 ELSE 5

\* the conversions number from .. from + n - 1 of channel c
RECURSIVE Conversions(_, _, _)
Conversions(c, from, n) ==
    IF n = 0 THEN <<>>
    ELSE <<Signal(profile, c, from)>> \o Conversions(c, from + 1, n - 1)

\* the last BatchOf conversions shifted out of channel c
LatestBatch(c) == Conversions(c, conv[c] - BatchOf, BatchOf)

LastLine == LET l == Lines(sink) IN l[Len(l)]

\* the read_average events of a cycle on channels 0 .. n - 1, in order
WellOrdered(t, n) ==
    /\ Len(t) <= 2 * n
    /\ \A p \in 1 .. Len(t) :
          /\ t[p].ev = (IF p % 2 = 1 THEN "call" ELSE "ret")
          /\ t[p].ch = (p - 1) \div 2

\* how a channel value appears in a Frame
ValueField(v) ==
    IF mode = "single" THEN PrintFloat(Quotient(v, 1000), 3)
    ELSE PrintLong(v)

\* C4: in a cycle that passed the gate read_average is called once per
\* channel, in ascending channel order, each call returning before the next
\* is made; the Frame is the timestamp of that cycle followed by the values
\* those calls returned, channel 0 first; each value is the mean of the
\* conversions shifted out of its channel in this very cycle; averages
\* [100, 200, 300, 400] give the line <timestamp>,100,200,300,400.
C4_OrderedFreshFrame ==
    /\ WellOrdered(trace, ChannelsOf)
    /\ (pc = "return" /\ AllPolledReady) =>
          LET f == Fields(LastLine)
          IN /\ Len(trace) = 2 * ChannelsOf
             /\ Len(f) = 1 + ChannelsOf
             /\ f[1] = <<Num(stamp)>>
             /\ \A c \in 0 .. (ChannelsOf - 1) :
                   /\ f[c + 2] = ValueField(trace[2 * c + 2].val)
                   /\ IsTruncMean(trace[2 * c + 2].val, LatestBatch(c))
                   /\ conv[c] = BatchOf * Len(DataLines(sink))
    /\ (pc = "return" /\ AllPolledReady /\ <<mode, profile>> = <<"multi", "steady">>)
          => LastLine = <<Num(stamp), Comma, Num(100), Comma, Num(200),
                          Comma, Num(300), Comma, Num(400)>>

\* the second Frame of the multi-channel sketch under changing negative
\* counts has just been completed
C4_Witness ==
    /\ <<mode, profile>> = <<"multi", "noisy">>
    /\ pc = "return"
    /\ AllPolledReady
    /\ Len(DataLines(sink)) = 2
    /\ Fields(DataLines(sink)[1]) # Fields(LastLine)

IsDigit(t) == t.k = "num" /\ t.v \in 0 .. 9

IsUnsigned(f) == Len(f) = 1 /\ f[1].k = "num" /\ f[1].v >= 0

\* <int>: digits, or a minus sign and digits
IsIntField(f) ==
    \/ IsUnsigned(f)
    \/ Len(f) = 2 /\ f[1] = Sym("-") /\ f[2].k = "num" /\ f[2].v > 0

\* <float with 3 decimals>: [-] integer part, a point, three digits
IsFloat3Field(f) ==
    LET g == IF f # <<>> /\ Head(f) = Sym("-") THEN Tail(f) ELSE f
    IN /\ Len(g) = 5
       /\ g[1].k = "num" /\ g[1].v >= 0
       /\ g[2] = Sym(".")
       /\ \A p \in 3 .. 5 : IsDigit(g[p])

IsDataLine(line) ==
    LET f == Fields(line)
    IN /\ Len(f) = (IF mode = "single" THEN 2 ELSE 5)
       /\ IsUnsigned(f[1])
       /\ \A p \in 2 .. Len(f) :
             IF mode = "single" THEN IsFloat3Field(f[p]) ELSE IsIntField(f[p])

\* C5: whenever a line break has just been written, the sink holds the
\* header line as its first line and after it only complete data lines:
\* 5 comma-separated fields <uint>,<int>,<int>,<int>,<int> in the
\* multi-channel sketch, 2 fields <uint>,<float with 3 decimals> in the
\* single-channel sketch; no later line is a header.
C5_HeaderThenDataLines ==
    (sink # <<>> /\ Last(sink) = NL) =>
        LET l == Lines(sink)
        IN /\ Partial(sink) = <<>>
           /\ l[1] = <<Sym(IF mode = "single" THEN "millis,grams"
                           ELSE "millis,raw_ch1,raw_ch2,raw_ch3,raw_ch4")>>
           /\ \A j \in 2 .. Len(l) : IsDataLine(l[j])

\* two data lines with negative values, the line break just written
C5_Witness ==
    /\ <<mode, profile>> = <<"multi", "noisy">>
    /\ pc = "pace"
    /\ Last(sink) = NL
    /\ Len(Lines(sink)) = 3
    /\ Len(LastLine) > 9

\* C6: Calibration State is fixed after startup: once setup() has returned
\* every channel has been tared exactly once, whatever loop() has done
\* since, and during setup() no channel was tared twice; calibration_factor
\* is 1000 in every reachable state of the single-channel sketch, so the
\* divisor of the conversion is never zero.
C6_CalibrationFixed ==
    /\ InLoop => \A c \in 0 .. (ChannelsOf - 1) : tares[c] = 1
    /\ InSetup => \A c \in 0 .. (ChannelsOf - 1) : tares[c] <= 1
    /\ mode = "single" => calibration_factor = 1000
    /\ mode = "single" => grams.den # 0

\* after two Frames every channel still has its single tare
C6_Witness ==
    /\ mode = "multi"
    /\ pc = "return"
    /\ Len(DataLines(sink)) = 2
    /\ \A c \in Chan(mode) : tares[c] = 1

\* C7: when read_average has returned, it has shifted exactly batchSize
\* conversions out of its channel (10 single-channel, 5 multi-channel) and
\* out of no other, and the value returned is the arithmetic mean of
\* exactly those conversions rounded toward zero, negative batches
\* included.
C7_SamplerTruncatedMean ==
    pc \in {"convert", "emit"} =>
        /\ Len(batch) = BatchOf
        /\ batch = LatestBatch(i)
        /\ IsTruncMean(raw, batch)
        /\ \A c \in Chan(mode) :
              conv[c] = BatchOf * (CountNL(sink) - 1 + (IF c <= i THEN 1 ELSE 0))

\* a negative batch whose sum is no multiple of the batch size
C7_Witness ==
    /\ <<mode, profile>> = <<"multi", "noisy">>
    /\ pc = "emit"
    /\ i = 3
    /\ raw < 0
    /\ SumSeq(batch) % 5 # 0
    /\ raw # SumSeq(batch) \div 5

\* the value a printed <float with 3 decimals> stands for, in thousandths
Thousandths(f) ==
    LET g == IF Head(f) = Sym("-") THEN Tail(f) ELSE f
    IN (IF Head(f) = Sym("-") THEN -1 ELSE 1)
       * (1000 * g[1].v + 100 * g[3].v + 10 * g[4].v + g[5].v)

\* C8: in the single-channel sketch the value field of a Frame has exactly
\* 3 decimal digits and stands for the averaged raw reading of that cycle
\* divided by calibration_factor; raw average 4000 with factor 1000 gives
\* the field 4.000.
C8_GramsThreeDecimals ==
    (mode = "single" /\ pc = "return" /\ AllPolledReady) =>
        LET f == Fields(LastLine)
        IN /\ Len(f) = 2
           /\ IsFloat3Field(f[2])
           /\ raw = trace[2].val
           /\ Thousandths(f[2]) * calibration_factor = 1000 * raw
           /\ raw < 0 <=> Head(f[2]) = Sym("-")
           /\ raw = 4000 =>
                 f[2] = <<Num(4), Sym("."), Num(0), Num(0), Num(0)>>

\* raw average 4000
C8_Witness ==
    /\ mode = "single"
    /\ pc = "return"
    /\ AllPolledReady
    /\ raw = 4000
    /\ Len(DataLines(sink)) = 2

Ts(line) == line[1].v

\* C9: in the multi-channel sketch one delay of 50 ms is taken after every
\* Frame and before the next gate check, so the timestamps of consecutive
\* Frames never decrease and differ by at least 50 ms; the single-channel
\* loop takes no delay and its Frame timestamps never decrease.
C9_PacingAndMonotonicStamps ==
    LET data == DataLines(sink)
    IN /\ \A j \in 1 .. (Len(data) - 1) :
             Ts(data[j + 1]) >= Ts(data[j]) + (IF mode = "single" THEN 0 ELSE 50)
       /\ mode = "single" => paced = 0
       /\ (mode = "multi" /\ pc = "return" /\ AllPolledReady) =>
             /\ paced = 1
             /\ now >= stamp + 50
       /\ (mode = "multi" /\ pc \in {"loop", "gate", "check"} /\ data # <<>>) =>
             now >= Ts(data[Len(data)]) + 50
       /\ (InLoop /\ data # <<>>) => now >= Ts(data[Len(data)])

\* two Frames as close as they get: the four read_average calls and a
\* delay of exactly 50 ms apart
C9_Witness ==
    /\ mode = "multi"
    /\ Len(DataLines(sink)) = 2
    /\ Ts(DataLines(sink)[2]) =
          Ts(DataLines(sink)[1]) + MultiChannels * MaxLate + 50

\* C10: a run that follows a reset issues the same begin(), delay and
\* tare() calls on the same channels in the same order as the run before
\* it and writes the same header line (millis,grams single-channel,
\* millis,raw_ch1,raw_ch2,raw_ch3,raw_ch4 multi-channel); it tares every
\* channel afresh.
C10_RestartRepeatsStartup ==
    prevCalls # <<>> =>
        /\ IsPrefix(calls, prevCalls)
        /\ InLoop =>
              /\ calls = prevCalls
              /\ Last(calls).op = (IF mode = "single" THEN "millis,grams"
                                   ELSE "millis,raw_ch1,raw_ch2,raw_ch3,raw_ch4")
              /\ Lines(sink)[1] = <<Sym(Last(prevCalls).op)>>
              /\ \A c \in Chan(mode) : tares[c] = 1 /\ begun[c]
        /\ InSetup =>
              \A c \in Chan(mode) :
                  tares[c] = (IF Call("tare", c) \in Range(calls) THEN 1 ELSE 0)

\* the second run has emitted a Frame
C10_Witness ==
    /\ mode = "multi"
    /\ prevCalls # <<>>
    /\ InLoop
    /\ Len(DataLines(sink)) = 1

RECURSIVE CountTok(_, _)
CountTok(s, t) ==
    IF s = <<>> THEN 0
    ELSE (IF Head(s) = t THEN 1 ELSE 0) + CountTok(Tail(s), t)

\* the read_average calls of this iteration that have returned
Returned == Len(trace) \div 2

\* every Sampler call of this cycle has been made and has returned
AllSampled == Len(trace) = 2 * ChannelsOf

\* C11 as claimed: no token of a Frame, the timestamp included, is written
\* before the Sampler call of every channel of that cycle has returned.
C11_AsClaimed == (InLoop /\ written > 0) => AllSampled

\* C11, amended: the gate comes first and the whole cycle ends before the
\* next gate check; in the single-channel sketch nothing is written before
\* the Sampler call has returned; in the multi-channel sketch the timestamp
\* is written after the gate and before the first Sampler call, the value
\* of a channel is written after the Sampler call of that channel has
\* returned and before the call of the next channel is made, and the line
\* break is written after the Sampler call of every channel has returned.
C11_StagesInOrder ==
    /\ (InLoop /\ (written > 0 \/ trace # <<>>)) => AllPolledReady
    /\ pc = "gate" =>
          /\ written = 0
          /\ trace = <<>>
          /\ Partial(sink) = <<>>
    /\ (mode = "single" /\ InLoop /\ written > 0) => AllSampled
    /\ (mode = "multi" /\ InLoop) =>
          /\ trace # <<>> => (written > 0 /\ Head(IterTokens) = Num(stamp))
          /\ written > 0 =>
                LET commas == CountTok(IterTokens, Comma)
                IN /\ commas <= Returned
                   /\ pc \in {"sample", "read"} => commas = i
                   /\ pc \in {"sample", "read"} => Returned = i
                   /\ CountNL(IterTokens) > 0 => AllSampled

\* the multi-channel sketch is inside read_average of channel 2: timestamp
\* and two values are in the sink, two Sampler calls are still to come
C11_Witness ==
    /\ mode = "multi"
    /\ pc = "read"
    /\ i = 2
    /\ k = 3
    /\ written = 5
    /\ ~AllSampled

\* the channels polled in this iteration are 0 .. j - 1, all ready, or
\* 0 .. j with j the only busy one
GateShape ==
    \A c \in Chan(mode) :
        /\ polled[c] # "unpolled" =>
              \A d \in Chan(mode) : d < c => polled[d] = "ready"
        /\ polled[c] = "busy" =>
              \A d \in Chan(mode) : d > c => polled[d] = "unpolled"

C12_GateState ==
    mode = "multi" =>
        /\ InLoop => GateShape
        /\ pc = "gate" =>
              /\ all_ready
              /\ \A c \in Chan(mode) :
                    polled[c] = (IF c < i THEN "ready" ELSE "unpolled")
        /\ pc = "check" => (all_ready <=> AllPolledReady)
        /\ pc = "check" => (all_ready <=> \A c \in 0 .. 3 : polled[c] = "ready")
        /\ pc = "check" => (~all_ready <=> GateFailed)

\* a step that polls a channel
C12_PollStep ==
    (mode = "multi" /\ pc = "gate" /\ pc' # "begin" /\ polled' # polled) =>
        /\ polled' = [polled EXCEPT ![i] = IF ready[i] THEN "ready" ELSE "busy"]
        /\ ready' = ready
        /\ conv' = conv
        /\ sink' = sink
        /\ now' = now
        /\ tares' = tares
        /\ <<k, sum, raw, batch, trace, written, paced, stamp>>
              = <<k', sum', raw', batch', trace', written', paced', stamp'>>

\* C12: the gate of the multi-channel sketch polls the channels in
\* ascending order and stops at the first one whose is_ready() is false:
\* the channels after it stay unpolled in that iteration; all_ready is true
\* at the test that follows iff all four is_ready() calls returned true; a
\* poll reads the readiness of its channel and changes neither it nor the
\* conversions consumed, the sink, the clock or any Sampler state.
C12_GateShortCircuits == [](C12_GateState) /\ [][C12_PollStep]_vars

\* the gate stopped at channel 1 while channel 2 and 3 were ready
C12_Witness ==
    /\ mode = "multi"
    /\ pc = "check"
    /\ ~all_ready
    /\ polled = (0 :> "ready" @@ 1 :> "busy" @@ 2 :> "unpolled"
                 @@ 3 :> "unpolled")
    /\ ready[2] /\ ready[3]

\* nothing but the header has left the program and no channel was sampled
C13_Quiet ==
    /\ sink \in {<<>>, <<Sym(IF mode = "single" THEN "millis,grams"
                           ELSE "millis,raw_ch1,raw_ch2,raw_ch3,raw_ch4"), NL>>}
    /\ InLoop => sink # <<>>
    /\ trace = <<>>
    /\ \A c \in Chan(mode) : conv[c] = 0
    /\ written = 0
    /\ stamp = -1
    /\ paced = 0
    /\ pc \in {"begin", "stabilize", "tare", "header", "loop", "gate",
               "check", "return"}

\* C13: if some channel never becomes ready (its HX711 is in dead, so its
\* is_ready() is false for ever), the program polls again and again:
\* nothing but the header is ever written, read_average is never called,
\* and the thread keeps coming back from a failed gate check to the return
\* of loop(), so it never ends in an error, timeout or final state.
C13_StuckChannelRepollsForever ==
    /\ [](dead # {} => \A c \in dead : ~ready[c])
    /\ [](dead # {} => C13_Quiet)
    /\ []<>(dead = {} \/ pc = "return")

\* channel 3 has not been ready once; the gate failed on it after the
\* other three were polled ready
C13_Witness ==
    /\ mode = "multi"
    /\ pc = "return"
    /\ dead = {3}
    /\ polled = (0 :> "ready" @@ 1 :> "ready" @@ 2 :> "ready" @@ 3 :> "busy")
    /\ C13_Quiet

\* the iteration passed its gate check
GatePassed == InLoop /\ AllPolledReady /\ pc \notin {"loop", "gate"}

\* the iteration has written its Frame, line break included
FrameComplete == FrameWritten(ChannelsOf)

\* C14: with chips that keep a ready conversion until it is read and
\* deliver again after every read, and read_average calls that return,
\* loop() keeps emitting Frames: the sink, which gains one line at a time
\* and loses none, eventually holds the header and MaxFrames Frames, the
\* most that loop() is followed for;
\* every iteration whose gate check failed is eventually followed by an
\* iteration that has written a whole Frame; every iteration that passed
\* its gate check eventually writes its line break.
C14_FramesKeepComing ==
    /\ (dead = {}) ~> (CountNL(sink) = 1 + MaxFrames)
    /\ (dead = {} /\ InLoop /\ GateFailed) ~> (pc = "return" /\ FrameComplete)
    /\ GatePassed ~> (FrameComplete /\ Last(sink) = NL)

\* the last Frame the bound allows is whole and loop() is about to return;
\* all four channels were read five times for each Frame
C14_Witness ==
    /\ mode = "multi"
    /\ dead = {}
    /\ pc = "return"
    /\ FrameComplete
    /\ CountNL(sink) = 1 + MaxFrames
    /\ \A c \in Chan(mode) : conv[c] = MaxFrames * MultiBatch

\* the clock at every read_average entry and return of this iteration
SampleTimes == Range(sampledAt)

\* C15: in the multi-channel sketch millis() is read after the gate check
\* passed and before the first read_average call, so each of the four
\* readings of a Frame is sampled at or after the Frame's timestamp; in the
\* single-channel sketch millis() is read only after the read_average call
\* of the iteration has returned, so the timestamp is not earlier than the
\* end of the sampling.  In both the first field of the Frame is that
\* value of millis().
C15_StampAgainstSampling ==
    InLoop =>
        /\ Len(sampledAt) = Len(trace)
        /\ stamp # -1 => AllPolledReady /\ Head(IterTokens) = Num(stamp)
        /\ mode = "multi" =>
              /\ pc \in {"gate", "check", "stamp"} =>
                    stamp = -1 /\ trace = <<>>
              /\ trace # <<>> =>
                    stamp # -1 /\ \A t \in SampleTimes : t >= stamp
              /\ FrameComplete => Len(trace) = 2 * MultiChannels
        /\ mode = "single" =>
              /\ (pc = "stamp" \/ stamp # -1) =>
                    /\ Len(trace) = 2
                    /\ Last(trace).ev = "ret"
                    /\ \A t \in SampleTimes : t <= now
              /\ stamp # -1 => \A t \in SampleTimes : t <= stamp

\* a second Frame of four channels is whole: the first call was entered at
\* the timestamp, the last one returned 4 * MaxLate ms after it
C15_Witness ==
    /\ mode = "multi"
    /\ pc = "return"
    /\ FrameComplete
    /\ CountNL(sink) = 3
    /\ Len(sampledAt) = 2 * MultiChannels
    /\ sampledAt[1] = stamp
    /\ Last(sampledAt) = stamp + MultiChannels * MaxLate
    /\ Last(sampledAt) > stamp

====
